---------------------------- MODULE Spec2Model ----------------------------
(***************************************************************************)
(* Firmware-update control path of the Lab X "revolver" bootloader         *)
(* (board/labx/revolver/firmware-update.c).                                *)
(*                                                                         *)
(* The program is single threaded.  CheckFirmwareUpdate probes the ICAP,   *)
(* polls the mailbox four times and then either returns or enters          *)
(* DoFirmwareUpdate, whose loop reads one request, answers it and, when    *)
(* sendDataPacket raised executeUpdate, runs executeFirmwareUpdate.        *)
(*                                                                         *)
(* Addresses are offsets from XPAR_DDR2_CONTROL_MPMC_BASEADDR.  Enumerators*)
(* and 32-bit hash codes are strings carrying the C names.  The lengths    *)
(* and packet sizes of the model stay far below 2^32, where the uint32_t   *)
(* additions of the code do not wrap.                                      *)
(***************************************************************************)
EXTENDS Integers, Sequences, FiniteSets, TLC

(* ------------------------------ bounds -------------------------------- *)
\* largest length a host declares to startFirmwareUpdate
MaxLen == 2
\* largest m_size of a data packet
MaxPkt == 2

(* ---------------------------- constants ------------------------------- *)
\* firmware-update.c:21 (the staging base, as an offset from itself)
FWUPDATE_BUFFER == 0
\* firmware-update.c:27
GENERAL5_MAGIC == 43981
\* firmware-update.c:356, the bound of the boot polling loop
BootPolls == 4
NULL_EVENT == "NULL_EVENT"
FIRMWARE_UPDATE_EVENT == "FIRMWARE_UPDATE_EVENT"

ExecutionStates == {"UPDATE_SUCCESS", "UPDATE_CORRUPT_IMAGE", "UPDATE_NOT_EXECUTED"}

\* a data byte; 0 in the staging memory marks a cell no packet has written
Bytes == {1}
Lengths == 0..MaxLen
Cmds == {"run commit", "run other"}
Packets == UNION {[1..n -> Bytes] : n \in 0..MaxPkt}
\* the staged memory the model tracks: a packet is stored at a cursor below
\* MaxLen, so no write reaches MaxLen + MaxPkt - 1
MemSize == MaxLen + MaxPkt - 1
Addrs == 0..(MemSize - 1)

VARIABLES
  pc,                \* position of the single thread of control
  i,                 \* CheckFirmwareUpdate: index of the polling loop
  readValue,         \* CheckFirmwareUpdate: status word read from the ICAP
  fslLog,            \* calls on the FSL configuration port, in order
  returnValue,       \* value CheckFirmwareUpdate returned ("none" before)
  bootDelay, firmwareUpdate, executeUpdate, queueEnabled, eventValid,
  state,             \* the cell *state designates; the pointer is assigned
                     \* nowhere in this file and the cell is taken to be a
                     \* valid object, "unwritten" until the first store
  fwUpdateCtxt,      \* the firmware update context; cmd is the string_t
                     \* value the marshalling layer handed to the start
  mem,               \* bytes of the staging region
  env,               \* environment variable "crcreturn"
  response,          \* the frame in the response buffer, from the moment it
                     \* is written to the mailbox until the loop reads again
  asyncTrig,         \* TrigAsyncLabXMailbox calls of the last step
  shell,             \* commands handed to parse_string_outer in the last step
  step,              \* what the last step did (operation name)
  exec,              \* observation of the last executeFirmwareUpdate run
  sess,              \* history of the requests since the last start
  delivered,         \* polls that returned an event since the last arm
  log,               \* calls and stores of the last step, in program order
  request,           \* the request frame the last step received, if any
  hist,              \* requests served with their responses, kept only by
                     \* the scripted host of SpecScenario
  mtd                \* the MTD bridge driver: position, arguments and locals
                     \* of the call under way, and what it did to the bridge

flags == <<bootDelay, firmwareUpdate, executeUpdate, queueEnabled, eventValid>>
boot == <<i, readValue, fslLog, returnValue>>
vars == <<pc, boot, flags, state, fwUpdateCtxt, mem, env, response, asyncTrig,
          shell, step, exec, sess, delivered, log, request, hist, mtd>>

NoExec == [ran |-> FALSE, typeOk |-> FALSE, crcOk |-> FALSE, rc |-> 0,
           crcChecks |-> 0, stateWrites |-> <<>>, ret |-> 0]
NoResponse == [status |-> "none", payload |-> <<>>]
NoRequest == [cc |-> "none", op |-> "none"]
\* the MTD bridge driver with no call under way
NoCmd == [offset |-> 0, len |-> 0, opcode |-> "none", rc |-> 0, timeout |-> 0]
MtdIdle ==
  [pc |-> "idle", op |-> "none", args |-> [offset |-> 0, len |-> 0],
   offset |-> 0, len_rem |-> 0, next_len |-> 0, rc |-> 0, cmd |-> NoCmd,
   complete |-> FALSE, irqPolls |-> 0, statusReads |-> 0, lastStatus |-> 0,
   cmdLog |-> <<>>, copyLog |-> <<>>, ret |-> "none"]
NoSess == [started |-> FALSE, L |-> 0, c |-> "", sum |-> 0, pkts |-> 0,
           completions |-> 0, runs |-> 0]

\* saturating increment of a history counter
Bump(n, cap) == IF n < cap THEN n + 1 ELSE cap
\* saturating sum of the packet sizes (MaxLen + 1 stands for "more than any L")
AddSum(s, n) == IF s + n > MaxLen THEN MaxLen + 1 ELSE s + n

(* ------------------------- service functions -------------------------- *)
\* Each is the C function as a function of the current globals and its
\* arguments: the value returned and the globals it assigns.

\* variant: a start that supersedes a session keeps the bytes counted so far
startFirmwareUpdate_keepCount(c, l) ==
  [ret  |-> IF fwUpdateCtxt.bUpdateInProgress
            THEN "e_EC_UPDATE_ALREADY_IN_PROGRESS" ELSE "e_EC_SUCCESS",
   ctxt |-> [bUpdateInProgress |-> TRUE,
             length            |-> l,
             cmd               |-> c,
             bytesReceived     |-> IF fwUpdateCtxt.bUpdateInProgress
                                   THEN fwUpdateCtxt.bytesReceived ELSE 0,
             fwImageBase       |-> FWUPDATE_BUFFER,
             fwImagePtr        |-> FWUPDATE_BUFFER]]

startFirmwareUpdate(c, l) ==
  [ret  |-> IF fwUpdateCtxt.bUpdateInProgress
            THEN "e_EC_UPDATE_ALREADY_IN_PROGRESS" ELSE "e_EC_SUCCESS",
   ctxt |-> [bUpdateInProgress |-> TRUE,
             length            |-> l,
             cmd               |-> c,
             bytesReceived     |-> 0,
             fwImageBase       |-> FWUPDATE_BUFFER,
             fwImagePtr        |-> FWUPDATE_BUFFER]]

\* memcpy(dst, data, n)
memcpy(m, dst, data) ==
  [a \in DOMAIN m |-> IF dst <= a /\ a < dst + Len(data)
                      THEN data[a - dst + 1] ELSE m[a]]

\* variant: the transfer is complete only once more than length bytes arrived
sendDataPacket_strict(data) ==
  IF ~fwUpdateCtxt.bUpdateInProgress
  THEN [ret |-> "e_EC_UPDATE_NOT_IN_PROGRESS", ctxt |-> fwUpdateCtxt,
        mem |-> mem, executeUpdate |-> executeUpdate]
  ELSE LET received == fwUpdateCtxt.bytesReceived + Len(data)
           done     == received > fwUpdateCtxt.length
       IN [ret  |-> "e_EC_SUCCESS",
           ctxt |-> [fwUpdateCtxt EXCEPT
                       !.bytesReceived = received,
                       !.bUpdateInProgress = IF done THEN FALSE ELSE @,
                       !.fwImagePtr = IF done THEN @ ELSE @ + Len(data)],
           mem  |-> memcpy(mem, fwUpdateCtxt.fwImagePtr, data),
           executeUpdate |-> IF done THEN TRUE ELSE executeUpdate]

\* variant: the in-progress test is missing, a stray packet is stored
sendDataPacket_noGuard(data) ==
  LET received == fwUpdateCtxt.bytesReceived + Len(data)
      done     == received >= fwUpdateCtxt.length
  IN [ret  |-> "e_EC_SUCCESS",
      ctxt |-> [fwUpdateCtxt EXCEPT
                  !.bytesReceived = received,
                  !.bUpdateInProgress = IF done THEN FALSE ELSE @,
                  !.fwImagePtr = IF done THEN @ ELSE @ + Len(data)],
      mem  |-> memcpy(mem, fwUpdateCtxt.fwImagePtr, data),
      executeUpdate |-> IF done THEN TRUE ELSE executeUpdate]

\* variant: the cursor advances for the completing packet too
sendDataPacket_advance(data) ==
  IF ~fwUpdateCtxt.bUpdateInProgress
  THEN [ret |-> "e_EC_UPDATE_NOT_IN_PROGRESS", ctxt |-> fwUpdateCtxt,
        mem |-> mem, executeUpdate |-> executeUpdate]
  ELSE LET received == fwUpdateCtxt.bytesReceived + Len(data)
           done     == received >= fwUpdateCtxt.length
       IN [ret  |-> "e_EC_SUCCESS",
           ctxt |-> [fwUpdateCtxt EXCEPT
                       !.bytesReceived = received,
                       !.bUpdateInProgress = IF done THEN FALSE ELSE @,
                       !.fwImagePtr = @ + Len(data)],
           mem  |-> memcpy(mem, fwUpdateCtxt.fwImagePtr, data),
           executeUpdate |-> IF done THEN TRUE ELSE executeUpdate]

sendDataPacket(data) ==
  IF ~fwUpdateCtxt.bUpdateInProgress
  THEN [ret |-> "e_EC_UPDATE_NOT_IN_PROGRESS", ctxt |-> fwUpdateCtxt,
        mem |-> mem, executeUpdate |-> executeUpdate]
  ELSE LET received == fwUpdateCtxt.bytesReceived + Len(data)
           done     == received >= fwUpdateCtxt.length
       IN [ret  |-> "e_EC_SUCCESS",
           ctxt |-> [fwUpdateCtxt EXCEPT
                       !.bytesReceived = received,
                       !.bUpdateInProgress = IF done THEN FALSE ELSE @,
                       !.fwImagePtr = IF done THEN @ ELSE @ + Len(data)],
           mem  |-> memcpy(mem, fwUpdateCtxt.fwImagePtr, data),
           executeUpdate |-> IF done THEN TRUE ELSE executeUpdate]

\* typeOk is image_check_type(fwImageBase, IH_TYPE_KERNEL), crcOk is
\* image_check_dcrc(fwImageBase): results of the image collaborator.
\* variant: a bad data CRC falls through to the success return
doCrcCheck_fallThrough(typeOk, crcOk) ==
  IF typeOk
  THEN IF ~crcOk
       THEN [ret |-> 1, env |-> "1", crcChecks |-> 1]
       ELSE [ret |-> 1, env |-> "0", crcChecks |-> 1]
  ELSE [ret |-> 0, env |-> env, crcChecks |-> 0]

doCrcCheck(typeOk, crcOk) ==
  IF typeOk
  THEN IF ~crcOk
       THEN [ret |-> 0, env |-> "1", crcChecks |-> 1]
       ELSE [ret |-> 1, env |-> "0", crcChecks |-> 1]
  ELSE [ret |-> 0, env |-> env, crcChecks |-> 0]

\* rc is what parse_string_outer returns for the command
\* variant: a failed command is handed to the shell a second time
executeFirmwareUpdate_retry(typeOk, crcOk, rc) ==
  LET crc == doCrcCheck(typeOk, crcOk)
  IN IF crc.ret = 0
     THEN [ret |-> 1, stateWrites |-> <<"UPDATE_CORRUPT_IMAGE">>,
           shell |-> <<>>, env |-> crc.env, crcChecks |-> crc.crcChecks]
     ELSE IF rc # 0
     THEN [ret |-> 1, stateWrites |-> <<"UPDATE_NOT_EXECUTED">>,
           shell |-> <<fwUpdateCtxt.cmd, fwUpdateCtxt.cmd>>, env |-> crc.env,
           crcChecks |-> crc.crcChecks]
     ELSE [ret |-> 0, stateWrites |-> <<"UPDATE_SUCCESS">>,
           shell |-> <<fwUpdateCtxt.cmd>>, env |-> crc.env,
           crcChecks |-> crc.crcChecks]

\* variant: a corrupt image is reported as a command that did not execute
executeFirmwareUpdate_misreport(typeOk, crcOk, rc) ==
  LET crc == doCrcCheck(typeOk, crcOk)
  IN IF crc.ret = 0
     THEN [ret |-> 1, stateWrites |-> <<"UPDATE_NOT_EXECUTED">>,
           shell |-> <<>>, env |-> crc.env, crcChecks |-> crc.crcChecks]
     ELSE IF rc # 0
     THEN [ret |-> 1, stateWrites |-> <<"UPDATE_NOT_EXECUTED">>,
           shell |-> <<fwUpdateCtxt.cmd>>, env |-> crc.env,
           crcChecks |-> crc.crcChecks]
     ELSE [ret |-> 0, stateWrites |-> <<"UPDATE_SUCCESS">>,
           shell |-> <<fwUpdateCtxt.cmd>>, env |-> crc.env,
           crcChecks |-> crc.crcChecks]

executeFirmwareUpdate(typeOk, crcOk, rc) ==
  LET crc == doCrcCheck(typeOk, crcOk)
  IN IF crc.ret = 0
     THEN [ret |-> 1, stateWrites |-> <<"UPDATE_CORRUPT_IMAGE">>,
           shell |-> <<>>, env |-> crc.env, crcChecks |-> crc.crcChecks]
     ELSE IF rc # 0
     THEN [ret |-> 1, stateWrites |-> <<"UPDATE_NOT_EXECUTED">>,
           shell |-> <<fwUpdateCtxt.cmd>>, env |-> crc.env,
           crcChecks |-> crc.crcChecks]
     ELSE [ret |-> 0, stateWrites |-> <<"UPDATE_SUCCESS">>,
           shell |-> <<fwUpdateCtxt.cmd>>, env |-> crc.env,
           crcChecks |-> crc.crcChecks]

sendCommand(rc) ==
  IF rc # 0 THEN "e_EC_NOT_EXECUTED" ELSE "e_EC_SUCCESS"

\* variant: the event is returned but eventValid is left set
get_nextQueuedEvent_sticky ==
  IF eventValid
  THEN [ret |-> "e_EC_SUCCESS", eventValid |-> eventValid,
        event |-> [eventCode |-> FIRMWARE_UPDATE_EVENT, data |-> <<state>>]]
  ELSE [ret |-> "e_EC_SUCCESS", eventValid |-> eventValid,
        event |-> [eventCode |-> NULL_EVENT, data |-> <<>>]]

\* variant: a pending event is delivered only while the queue is enabled
get_nextQueuedEvent_gated ==
  IF eventValid /\ queueEnabled
  THEN [ret |-> "e_EC_SUCCESS", eventValid |-> FALSE,
        event |-> [eventCode |-> FIRMWARE_UPDATE_EVENT, data |-> <<state>>]]
  ELSE [ret |-> "e_EC_SUCCESS", eventValid |-> eventValid,
        event |-> [eventCode |-> NULL_EVENT, data |-> <<>>]]

\* variant: a delivered event always reports a successful update
get_nextQueuedEvent_success ==
  IF eventValid
  THEN [ret |-> "e_EC_SUCCESS", eventValid |-> FALSE,
        event |-> [eventCode |-> FIRMWARE_UPDATE_EVENT,
                   data |-> <<"UPDATE_SUCCESS">>]]
  ELSE [ret |-> "e_EC_SUCCESS", eventValid |-> eventValid,
        event |-> [eventCode |-> NULL_EVENT, data |-> <<>>]]

get_nextQueuedEvent ==
  IF eventValid
  THEN [ret |-> "e_EC_SUCCESS", eventValid |-> FALSE,
        event |-> [eventCode |-> FIRMWARE_UPDATE_EVENT, data |-> <<state>>]]
  ELSE [ret |-> "e_EC_SUCCESS", eventValid |-> eventValid,
        event |-> [eventCode |-> NULL_EVENT, data |-> <<>>]]

set_eventQueueEnabled(enabled) ==
  [ret |-> "e_EC_SUCCESS", queueEnabled |-> enabled]

(* --------------------------- request frames --------------------------- *)
Classes == {"k_CC_FirmwareUpdate", "k_CC_AvbSystem", "k_CC_Other"}
NoArgOps == {"remainInBootloader", "requestBootDelay", "get_ExecutingImageType",
             "get_eventQueueEnabled", "get_nextQueuedEvent"}
\* rc of a sendCommand frame is what the shell will return for its command.
\* The class code only selects the branch of the switch: the frames of
\* k_CC_AvbSystem are the argument-free operations, and a frame of an
\* unrecognized class is never decoded, so one stands for all.
Requests ==
  [cc : {"k_CC_FirmwareUpdate"}, op : {"sendCommand"}, cmd : Cmds, rc : {0, 1}]
    \cup [cc : {"k_CC_FirmwareUpdate"}, op : {"startFirmwareUpdate"}, cmd : Cmds,
          length : Lengths]
    \cup [cc : {"k_CC_FirmwareUpdate"}, op : {"sendDataPacket"}, data : Packets]
    \cup [cc : {"k_CC_FirmwareUpdate"}, op : {"set_eventQueueEnabled"},
          enabled : BOOLEAN]
    \cup [cc : {"k_CC_FirmwareUpdate", "k_CC_AvbSystem"}, op : NoArgOps]
    \cup [cc : {"k_CC_Other"}, op : {"get_ExecutingImageType"}]

\* what the marshalling layer writes to the response buffer for a service
Reply(ret, payload) == response' = [status |-> ret, payload |-> payload]

\* FirmwareUpdate__unmarshal(request, response): decode the operation, call
\* the service or attribute accessor, fill the response.
FirmwareUpdate__unmarshal(req) ==
  /\ step' = req.op
  /\ \/ /\ req.op = "sendCommand"
        /\ shell' = <<req.cmd>>
        /\ Reply(sendCommand(req.rc), <<>>)
        /\ UNCHANGED <<flags, fwUpdateCtxt, mem, sess, delivered>>
     \/ /\ req.op = "startFirmwareUpdate"
        /\ LET r == startFirmwareUpdate(req.cmd, req.length)
           IN /\ fwUpdateCtxt' = r.ctxt
              /\ Reply(r.ret, <<>>)
        /\ sess' = [started |-> TRUE, L |-> req.length, c |-> req.cmd, sum |-> 0,
                    pkts |-> 0, completions |-> 0, runs |-> 0]
        /\ shell' = <<>>
        /\ UNCHANGED <<flags, mem, delivered>>
     \/ /\ req.op = "sendDataPacket"
        /\ LET r == sendDataPacket(req.data)
           IN /\ fwUpdateCtxt' = r.ctxt
              /\ mem' = r.mem
              /\ executeUpdate' = r.executeUpdate
              /\ Reply(r.ret, <<>>)
              /\ sess' = IF ~sess.started THEN sess
                         ELSE [sess EXCEPT
                                 !.sum = AddSum(@, Len(req.data)),
                                 !.pkts = Bump(@, 1),
                                 !.completions =
                                    IF /\ fwUpdateCtxt.bUpdateInProgress
                                       /\ ~r.ctxt.bUpdateInProgress
                                       /\ r.executeUpdate
                                    THEN Bump(@, 2) ELSE @]
        /\ shell' = <<>>
        /\ UNCHANGED <<bootDelay, firmwareUpdate, queueEnabled, eventValid, delivered>>
     \/ /\ req.op = "remainInBootloader"
        /\ firmwareUpdate' = TRUE
        /\ Reply("e_EC_SUCCESS", <<>>)
        /\ shell' = <<>>
        /\ UNCHANGED <<bootDelay, executeUpdate, queueEnabled, eventValid,
                       fwUpdateCtxt, mem, sess, delivered>>
     \/ /\ req.op = "requestBootDelay"
        /\ bootDelay' = TRUE
        /\ Reply("e_EC_SUCCESS", <<>>)
        /\ shell' = <<>>
        /\ UNCHANGED <<firmwareUpdate, executeUpdate, queueEnabled, eventValid,
                       fwUpdateCtxt, mem, sess, delivered>>
     \/ /\ req.op = "get_ExecutingImageType"
        /\ Reply("e_EC_SUCCESS", <<"e_CODE_IMAGE_BOOT">>)
        /\ shell' = <<>>
        /\ UNCHANGED <<flags, fwUpdateCtxt, mem, sess, delivered>>
     \/ /\ req.op = "get_eventQueueEnabled"
        /\ Reply("e_EC_SUCCESS", <<queueEnabled>>)
        /\ shell' = <<>>
        /\ UNCHANGED <<flags, fwUpdateCtxt, mem, sess, delivered>>
     \/ /\ req.op = "set_eventQueueEnabled"
        /\ LET r == set_eventQueueEnabled(req.enabled)
           IN /\ queueEnabled' = r.queueEnabled
              /\ Reply(r.ret, <<>>)
        /\ shell' = <<>>
        /\ UNCHANGED <<bootDelay, firmwareUpdate, executeUpdate, eventValid,
                       fwUpdateCtxt, mem, sess, delivered>>
     \/ /\ req.op = "get_nextQueuedEvent"
        /\ LET r == get_nextQueuedEvent
           IN /\ eventValid' = r.eventValid
              /\ Reply(r.ret, <<r.event>>)
              /\ delivered' = IF r.event.eventCode = FIRMWARE_UPDATE_EVENT
                              THEN Bump(delivered, 2) ELSE delivered
        /\ shell' = <<>>
        /\ UNCHANGED <<bootDelay, firmwareUpdate, executeUpdate, queueEnabled,
                       fwUpdateCtxt, mem, sess>>

\* variant: a frame of an unrecognized class aborts the session in progress
Malformed_abort ==
  /\ step' = "malformed"
  /\ response' = [status |-> "e_EC_INVALID_SERVICE_CODE", payload |-> <<>>]
  /\ shell' = <<>>
  /\ fwUpdateCtxt' = [fwUpdateCtxt EXCEPT !.bUpdateInProgress = FALSE]
  /\ UNCHANGED <<flags, mem, sess, delivered>>

\* the default branch of the class-code switch
Malformed ==
  /\ step' = "malformed"
  /\ response' = [status |-> "e_EC_INVALID_SERVICE_CODE", payload |-> <<>>]
  /\ shell' = <<>>
  /\ UNCHANGED <<flags, fwUpdateCtxt, mem, sess, delivered>>

\* the case labels of the switch in DoFirmwareUpdate and of the one in the
\* polling loop of CheckFirmwareUpdate
LoopClasses == {"k_CC_FirmwareUpdate", "k_CC_AvbSystem"}
BootClasses == {"k_CC_FirmwareUpdate"}

\* the switch on getClassCode_req(request)
Route(req, classes) ==
  IF req.cc \in classes THEN FirmwareUpdate__unmarshal(req) ELSE Malformed

\* variant: a frame of an unrecognized class is dropped without a response
Answer_routedOnly ==
  log' = IF step' = "malformed"
         THEN <<"dispatch">> ELSE <<"dispatch", "WriteLabXMailbox">>

\* the request is dispatched, then the response buffer is written to the
\* mailbox, once
Answer == log' = <<"dispatch", "WriteLabXMailbox">>

(* ------------------------ CheckFirmwareUpdate ------------------------- *)
\* the calls CheckFirmwareUpdate makes on the FSL port and the delays
\* between them
FslWrite(w, ctl) == [op |-> "putfslx", word |-> w, control |-> ctl]
FslRead == [op |-> "getfslx"]
Udelay(us) == [op |-> "udelay", us |-> us]

\* variant: the probe starts at the pad words, without the control word
ProbeSequence_noControl ==
  << FslWrite("0x0FFFF", FALSE), FslWrite("0x0FFFF", FALSE),
     FslWrite("0x0AA99", FALSE), FslWrite("0x05566", FALSE),
     FslWrite("0x02AE1", FALSE),
     FslWrite("0x02000", FALSE), FslWrite("0x02000", FALSE),
     FslWrite("FINISH_FSL_BIT", FALSE),
     Udelay(1000), FslRead >>

ProbeSequence ==
  << FslWrite("0x0FFFF", TRUE), Udelay(1000),
     FslWrite("0x0FFFF", FALSE), FslWrite("0x0FFFF", FALSE),
     FslWrite("0x0AA99", FALSE), FslWrite("0x05566", FALSE),
     FslWrite("0x02AE1", FALSE),
     FslWrite("0x02000", FALSE), FslWrite("0x02000", FALSE),
     FslWrite("FINISH_FSL_BIT", FALSE),
     Udelay(1000), FslRead >>

\* SetupLabXMailbox, the ICAP command sequence and the read of its result
Probe ==
  /\ pc = "probe"
  /\ fslLog' = ProbeSequence
  /\ readValue' \in {GENERAL5_MAGIC, 0}
  /\ pc' = "poll"
  /\ step' = "probe"
  /\ asyncTrig' = 0 /\ shell' = <<>> /\ exec' = NoExec
  /\ log' = <<>> /\ request' = NoRequest
  /\ UNCHANGED <<i, returnValue, flags, state, fwUpdateCtxt, mem, env, response,
                 sess, delivered, hist, mtd>>

\* variant: the polling loop ends at the first response, whatever its status
WindowEnds_anyStatus(resp) == resp.status /= "none"

\* variant: no response ends the polling loop early
WindowEnds_never(resp) == resp.status = "none"

\* variant: the polling loop ends on a rejected request and goes on after a
\* successful one
WindowEnds_onError(resp) == resp.status \notin {"none", "e_EC_SUCCESS"}

\* the test that ends the polling loop early
WindowEnds(resp) == resp.status = "e_EC_SUCCESS"

\* one iteration of the polling loop in which ReadLabXMailbox finds nothing
PollEmpty ==
  /\ pc = "poll"
  /\ i' = i + 1
  /\ pc' = IF i + 1 < BootPolls THEN "poll" ELSE "decide"
  /\ step' = "udelay"
  /\ log' = <<"udelay">> /\ request' = NoRequest
  /\ asyncTrig' = 0 /\ shell' = <<>> /\ exec' = NoExec
  /\ UNCHANGED <<readValue, fslLog, returnValue, flags, state, fwUpdateCtxt, mem,
                 env, response, sess, delivered, hist, mtd>>

\* one iteration of the polling loop in which a request is received
PollRequest ==
  /\ pc = "poll"
  /\ \E req \in Requests : request' = req /\ Route(req, BootClasses)
  /\ Answer
  /\ IF WindowEnds(response')
     THEN pc' = "decide" /\ i' = i
     ELSE i' = i + 1 /\ pc' = IF i + 1 < BootPolls THEN "poll" ELSE "decide"
  /\ asyncTrig' = 0 /\ exec' = NoExec
  /\ UNCHANGED <<readValue, fslLog, returnValue, state, env, hist, mtd>>

\* variant: the probe word is ignored, only the host's request counts
doUpdate_requestOnly == firmwareUpdate

\* doUpdate as the decision computes it from the probe word and the flag
doUpdate == readValue = GENERAL5_MAGIC \/ firmwareUpdate

\* the decision after the polling loop, when an update is required
EnterUpdate ==
  /\ pc = "decide"
  /\ doUpdate
  /\ pc' = "read"
  /\ step' = "enter"
  /\ i' = 0 /\ readValue' = 0          \* locals never read again
  /\ response' = NoResponse
  /\ asyncTrig' = 0 /\ shell' = <<>> /\ exec' = NoExec
  /\ log' = <<>> /\ request' = NoRequest
  /\ UNCHANGED <<fslLog, returnValue, flags, state, fwUpdateCtxt, mem, env, sess,
                 delivered, hist, mtd>>

\* the decision after the polling loop, when CheckFirmwareUpdate returns
ReturnToBoot ==
  /\ pc = "decide"
  /\ ~doUpdate
  /\ returnValue' = IF bootDelay THEN 1 ELSE 0
  /\ pc' = "returned"
  /\ step' = "return"
  /\ asyncTrig' = 0 /\ shell' = <<>> /\ exec' = NoExec
  /\ log' = <<>> /\ request' = NoRequest
  /\ UNCHANGED <<i, readValue, fslLog, flags, state, fwUpdateCtxt, mem, env,
                 response, sess, delivered, hist, mtd>>

(* -------------------------- DoFirmwareUpdate -------------------------- *)
\* ReadLabXMailbox returned a request: unmarshal it and write the response.
\* The blocking read is taken to deliver a request whenever it returns.
ServeRequest(req) ==
  /\ pc = "read"
  /\ request' = req
  /\ Route(req, LoopClasses)
  /\ Answer
  /\ pc' = "post"
  /\ asyncTrig' = 0 /\ exec' = NoExec
  /\ UNCHANGED <<boot, state, env, mtd>>

Serve == \E req \in Requests : ServeRequest(req) /\ UNCHANGED hist

\* variant: the latch is armed and the notification raised after every run
ArmEvent_always ==
  [eventValid |-> TRUE, trig |-> 1,
   log |-> <<"executeFirmwareUpdate", "executeUpdate = FALSE",
             "eventValid = TRUE", "TrigAsyncLabXMailbox">>]

\* variant: the latch is armed and the notification raised before the
\* executor has run
ArmEvent_early ==
  IF queueEnabled
  THEN [eventValid |-> TRUE, trig |-> 1,
        log |-> <<"eventValid = TRUE", "TrigAsyncLabXMailbox",
                  "executeFirmwareUpdate", "executeUpdate = FALSE">>]
  ELSE [eventValid |-> eventValid, trig |-> 0,
        log |-> <<"executeFirmwareUpdate", "executeUpdate = FALSE">>]

\* the stores and the call that follow executeFirmwareUpdate
ArmEvent ==
  IF queueEnabled
  THEN [eventValid |-> TRUE, trig |-> 1,
        log |-> <<"executeFirmwareUpdate", "executeUpdate = FALSE",
                  "eventValid = TRUE", "TrigAsyncLabXMailbox">>]
  ELSE [eventValid |-> eventValid, trig |-> 0,
        log |-> <<"executeFirmwareUpdate", "executeUpdate = FALSE">>]

\* if(executeUpdate) { ... } after the response was written
Execute ==
  /\ pc = "post"
  /\ executeUpdate
  /\ \E typeOk \in BOOLEAN, crcOk \in BOOLEAN, rc \in {0, 1} :
       LET r == executeFirmwareUpdate(typeOk, crcOk, rc)
       IN /\ state' = r.stateWrites[Len(r.stateWrites)]
          /\ env' = r.env
          /\ shell' = r.shell
          /\ exec' = [ran |-> TRUE, typeOk |-> typeOk, crcOk |-> crcOk, rc |-> rc,
                      crcChecks |-> r.crcChecks, stateWrites |-> r.stateWrites,
                      ret |-> r.ret]
  /\ executeUpdate' = FALSE
  /\ LET a == ArmEvent
     IN /\ eventValid' = a.eventValid
        /\ asyncTrig' = a.trig
        /\ log' = a.log
        /\ request' = NoRequest
        /\ delivered' = IF a.trig > 0 THEN 0 ELSE delivered
  /\ sess' = [sess EXCEPT !.runs = Bump(@, 2)]
  /\ pc' = "read"
  /\ step' = "execute"
  /\ response' = NoResponse
  /\ UNCHANGED <<boot, bootDelay, firmwareUpdate, queueEnabled, fwUpdateCtxt, mem,
                 hist, mtd>>

\* executeUpdate is not raised: straight back to the mailbox read
NoExecute ==
  /\ pc = "post"
  /\ ~executeUpdate
  /\ pc' = "read"
  /\ step' = "loop"
  /\ response' = NoResponse
  /\ asyncTrig' = 0 /\ shell' = <<>> /\ exec' = NoExec
  /\ log' = <<>> /\ request' = NoRequest
  /\ UNCHANGED <<boot, flags, state, fwUpdateCtxt, mem, env, sess, delivered, hist, mtd>>

\* the blocking ReadLabXMailbox returns 0: the loop ends, DoFirmwareUpdate
\* returns and CheckFirmwareUpdate spins in while(1)
MailboxClosed ==
  /\ pc = "read"
  /\ pc' = "halt"
  /\ step' = "halt"
  /\ log' = <<>> /\ request' = NoRequest
  /\ asyncTrig' = 0 /\ shell' = <<>> /\ exec' = NoExec
  /\ UNCHANGED <<boot, flags, state, fwUpdateCtxt, mem, env, response, sess,
                 delivered, hist, mtd>>

\* the globals and the thread of CheckFirmwareUpdate before its first step
InitMain ==
  /\ pc = "probe"
  /\ i = 0
  /\ readValue = 0
  /\ fslLog = <<>>
  /\ returnValue = "none"
  /\ bootDelay = FALSE
  /\ firmwareUpdate = FALSE
  /\ executeUpdate = FALSE
  /\ queueEnabled = FALSE
  /\ eventValid = FALSE
  /\ state = "unwritten"
  /\ fwUpdateCtxt = [bUpdateInProgress |-> FALSE, length |-> 0, cmd |-> "",
                     bytesReceived |-> 0, fwImageBase |-> 0, fwImagePtr |-> 0]
  /\ mem = [a \in Addrs |-> 0]
  /\ env = "unset"
  /\ response = NoResponse
  /\ asyncTrig = 0
  /\ shell = <<>>
  /\ step = "init"
  /\ exec = NoExec
  /\ sess = NoSess
  /\ delivered = 0
  /\ log = <<>>
  /\ request = NoRequest
  /\ hist = <<>>

Init == InitMain /\ mtd = MtdIdle

Next ==
  \/ Probe \/ PollEmpty \/ PollRequest \/ EnterUpdate \/ ReturnToBoot
  \/ Serve \/ Execute \/ NoExecute \/ MailboxClosed

Spec == Init /\ [][Next]_vars

TypeOK ==
  /\ pc \in {"probe", "poll", "decide", "returned", "read", "post", "halt"}
  /\ i \in 0..BootPolls
  /\ fwUpdateCtxt.length \in Lengths
  /\ state \in ExecutionStates \cup {"unwritten"}
  /\ env \in {"unset", "0", "1"}

(* --------------------------- scripted host ---------------------------- *)
\* A host that sends at most Len(ScenarioEnabled) requests to the dispatcher
\* loop, drawn from the frames of the four-byte transfer scenario, and keeps
\* what it sent and what it was answered.
ScenarioData == <<222, 173, 190, 239>>
Frame(op) == [cc |-> "k_CC_FirmwareUpdate", op |-> op]
StartFrame(c) ==
  [cc |-> "k_CC_FirmwareUpdate", op |-> "startFirmwareUpdate", cmd |-> c,
   length |-> Len(ScenarioData)]
DataFrame(d) == [cc |-> "k_CC_FirmwareUpdate", op |-> "sendDataPacket", data |-> d]
EnableFrame(b) ==
  [cc |-> "k_CC_FirmwareUpdate", op |-> "set_eventQueueEnabled", enabled |-> b]

Scenario ==
  << StartFrame("run commit"), DataFrame(ScenarioData),
     Frame("get_nextQueuedEvent"), Frame("get_nextQueuedEvent") >>
ScenarioEnabled == <<EnableFrame(TRUE)>> \o Scenario

ScenarioRequests ==
  {StartFrame(c) : c \in Cmds}
    \cup {DataFrame(ScenarioData), DataFrame(SubSeq(ScenarioData, 1, 2))}
    \cup {Frame("get_nextQueuedEvent")}
    \cup {EnableFrame(b) : b \in BOOLEAN}

ScenarioServe ==
  /\ Len(hist) < Len(ScenarioEnabled)
  /\ \E req \in ScenarioRequests :
       /\ ServeRequest(req)
       /\ hist' = Append(hist, [req |-> req, resp |-> response'])

\* update mode as CheckFirmwareUpdate enters it when the probe read the magic
\* word and the polling loop saw no request: every global still holds its
\* initial value
InitScenario ==
  /\ pc = "read"
  /\ i = 0
  /\ readValue = 0
  /\ fslLog = ProbeSequence
  /\ returnValue = "none"
  /\ bootDelay = FALSE
  /\ firmwareUpdate = FALSE
  /\ executeUpdate = FALSE
  /\ queueEnabled = FALSE
  /\ eventValid = FALSE
  /\ state = "unwritten"
  /\ fwUpdateCtxt = [bUpdateInProgress |-> FALSE, length |-> 0, cmd |-> "",
                     bytesReceived |-> 0, fwImageBase |-> 0, fwImagePtr |-> 0]
  /\ mem = [a \in 0..(Len(ScenarioData) - 1) |-> 0]
  /\ env = "unset"
  /\ response = NoResponse
  /\ asyncTrig = 0
  /\ shell = <<>>
  /\ step = "enter"
  /\ exec = NoExec
  /\ sess = NoSess
  /\ delivered = 0
  /\ log = <<>>
  /\ request = NoRequest
  /\ hist = <<>>
  /\ mtd = MtdIdle

NextScenario == ScenarioServe \/ Execute \/ NoExecute

SpecScenario == InitScenario /\ [][NextScenario]_vars

(* ------------------------- MTD bridge driver -------------------------- *)
\* One call of mtd_bridge_erase, mtd_bridge_write or mtd_bridge_read, with
\* mtd_bridge_cmd stepped one register access at a time.  What the bridge
\* registers return is chosen freely at every read.  Offsets and lengths
\* stay below 2^31, where offset += next_len does not wrap.

\* most whole buffers in a transfer length (a partial one may follow)
MaxChunks == 2

MTDBRIDGE_SR_OIP == 1
MTDBRIDGE_SR_NORESP == 4
MTDBRIDGE_SR_RWERROR == 8
MTDBRIDGE_BUFFER_SIZE == 2048
MTDBRIDGE_TIMEOUT_MS == 500
MTDBRIDGE_TIMEOUT_SLICE == 1
MTDBRIDGE_TIMEOUT_WAITS ==
  (MTDBRIDGE_TIMEOUT_MS + MTDBRIDGE_TIMEOUT_SLICE - 1) \div MTDBRIDGE_TIMEOUT_SLICE

MtdOps == {"mtd_bridge_erase", "mtd_bridge_write", "mtd_bridge_read"}
MtdOffsets == {MTDBRIDGE_BUFFER_SIZE + 4}
MtdLens ==
  {k * MTDBRIDGE_BUFFER_SIZE + d :
     k \in 0..MaxChunks, d \in {0, 1, MTDBRIDGE_BUFFER_SIZE - 1}}
\* values the status register is read as
StatusValues ==
  {0, MTDBRIDGE_SR_OIP, MTDBRIDGE_SR_RWERROR,
   MTDBRIDGE_SR_OIP + MTDBRIDGE_SR_RWERROR}

Opcode(op) ==
  CASE op = "mtd_bridge_write" -> "MTDBRIDGE_OPCODE_WRITE"
    [] op = "mtd_bridge_read"  -> "MTDBRIDGE_OPCODE_READ"
    [] OTHER                   -> "MTDBRIDGE_OPCODE_SE"

\* (rc & MTDBRIDGE_SR_OIP) != 0
HasOip(v) == (v \div MTDBRIDGE_SR_OIP) % 2 = 1

\* variant: the loops give up one test later
Expired_late(t) == t < 0

\* !timeout--, the test; the decrement is made by the caller of Expired
Expired(t) == t = 0

\* if(rc == 0) rc = MTDBRIDGE_READ(MTDBRIDGE_STATUS_REG_ADDR)
Fetch(rc, status) == IF rc = 0 THEN status ELSE rc

\* variant: the whole remainder goes into one command
NextLen_whole(rem) == rem

\* the size of the next request
NextLen(rem) ==
  IF rem > MTDBRIDGE_BUFFER_SIZE THEN MTDBRIDGE_BUFFER_SIZE ELSE rem

\* 32-bit words moved for a chunk of n bytes
Words(n) == (n + 3) \div 4

main == <<pc, boot, flags, state, fwUpdateCtxt, mem, env, response, asyncTrig,
          shell, step, exec, sess, delivered, log, request, hist>>

\* the entry of a driver function, up to its first loop test or command
MtdCall(op, o, l) ==
  [MtdIdle EXCEPT !.pc = IF op = "mtd_bridge_erase" THEN "cmd" ELSE "loop",
                  !.op = op, !.args = [offset |-> o, len |-> l],
                  !.offset = o, !.len_rem = l, !.rc = 0]

\* the loop test of mtd_bridge_write / mtd_bridge_read and, when it passes,
\* the sizing of the next request (and for a write the staging of its words)
TransferNext ==
  /\ mtd.pc = "loop"
  /\ IF mtd.rc = 0 /\ mtd.len_rem > 0
     THEN LET n == NextLen(mtd.len_rem)
          IN mtd' = [mtd EXCEPT
                       !.next_len = n,
                       !.len_rem = @ - n,
                       !.copyLog = IF mtd.op = "mtd_bridge_write"
                                   THEN Append(@, [offset |-> mtd.offset,
                                                   words |-> Words(n)])
                                   ELSE @,
                       !.pc = "cmd"]
     ELSE mtd' = [mtd EXCEPT !.pc = "done", !.ret = mtd.rc]
  /\ UNCHANGED main

\* mtd_bridge_cmd: the four register writes that start the operation
CmdIssue ==
  /\ mtd.pc = "cmd"
  /\ mtd' = [mtd EXCEPT
               !.cmd = [offset  |-> mtd.offset,
                        len     |-> IF mtd.op = "mtd_bridge_erase"
                                    THEN mtd.args.len ELSE mtd.next_len,
                        opcode  |-> Opcode(mtd.op),
                        rc      |-> 0,
                        timeout |-> MTDBRIDGE_TIMEOUT_WAITS],
               !.complete = FALSE, !.irqPolls = 0, !.statusReads = 0,
               !.pc = "poll"]
  /\ UNCHANGED main

\* one test of the first while loop: a read of the IRQ register
CmdPoll ==
  /\ mtd.pc = "poll"
  /\ \E bit \in BOOLEAN :
       mtd' = [mtd EXCEPT
                 !.irqPolls = @ + 1,
                 !.complete = bit,
                 !.cmd.rc = IF ~bit /\ Expired(mtd.cmd.timeout)
                            THEN MTDBRIDGE_SR_NORESP ELSE @,
                 !.cmd.timeout = IF bit THEN @ ELSE @ - 1,
                 !.pc = IF bit \/ Expired(mtd.cmd.timeout)
                        THEN "fetch" ELSE "poll"]
  /\ UNCHANGED main

\* the fetch of the response and the reload of the timeout; the count of
\* IRQ reads is dropped here, the polling loop being over
CmdFetch ==
  /\ mtd.pc = "fetch"
  /\ \E status \in StatusValues :
       mtd' = [mtd EXCEPT
                 !.cmd.rc = Fetch(mtd.cmd.rc, status),
                 !.statusReads = IF mtd.cmd.rc = 0 THEN 1 ELSE 0,
                 !.lastStatus = IF mtd.cmd.rc = 0 THEN status ELSE 0,
                 !.cmd.timeout = MTDBRIDGE_TIMEOUT_WAITS,
                 !.irqPolls = 0,
                 !.pc = "wait"]
  /\ UNCHANGED main

\* one test of the second while loop and, when it goes on, the re-read of
\* the status register
CmdWait ==
  /\ mtd.pc = "wait"
  /\ IF HasOip(mtd.cmd.rc)
     THEN IF Expired(mtd.cmd.timeout)
          THEN mtd' = [mtd EXCEPT !.cmd.timeout = @ - 1, !.pc = "ret"]
          ELSE \E status \in StatusValues :
                 mtd' = [mtd EXCEPT !.cmd.timeout = @ - 1,
                                    !.cmd.rc = status,
                                    !.statusReads = @ + 1,
                                    !.lastStatus = status]
     ELSE mtd' = [mtd EXCEPT !.pc = "ret"]
  /\ UNCHANGED main

\* mtd_bridge_cmd returns rc to its caller: mtd_bridge_erase returns it, a
\* transfer assigns it, copies the chunk out after a read that returned 0,
\* and advances the offset
CmdReturn ==
  /\ mtd.pc = "ret"
  /\ LET done == [offset |-> mtd.cmd.offset, len |-> mtd.cmd.len,
                  opcode |-> mtd.cmd.opcode, rc |-> mtd.cmd.rc]
         r == [mtd EXCEPT !.cmdLog = Append(@, done), !.cmd = NoCmd,
                          !.complete = FALSE, !.statusReads = 0,
                          !.lastStatus = 0]
     IN IF mtd.op = "mtd_bridge_erase"
        THEN mtd' = [r EXCEPT !.pc = "done", !.ret = mtd.cmd.rc]
        ELSE mtd' = [r EXCEPT
                       !.rc = mtd.cmd.rc,
                       !.copyLog = IF mtd.op = "mtd_bridge_read" /\ mtd.cmd.rc = 0
                                   THEN Append(@, [offset |-> mtd.offset,
                                                   words |-> Words(mtd.next_len)])
                                   ELSE @,
                       !.offset = @ + mtd.next_len,
                       !.pc = "loop"]
  /\ UNCHANGED main

InitBridge ==
  /\ InitMain
  /\ mtd \in {MtdCall(op, o, l) : op \in MtdOps, o \in MtdOffsets, l \in MtdLens}

NextBridge ==
  \/ TransferNext \/ CmdIssue \/ CmdPoll \/ CmdFetch \/ CmdWait \/ CmdReturn

SpecBridge == InitBridge /\ [][NextBridge]_vars

\* the driver is straight-line code around two counted loops and mdelay
\* returns, so a step that can be taken is taken
SpecBridgeFair == SpecBridge /\ WF_vars(NextBridge)

(* ------------------------------ claims -------------------------------- *)
Offset == fwUpdateCtxt.fwImagePtr - fwUpdateCtxt.fwImageBase

C2_StrayPacketRejected ==
  [][(step' = "sendDataPacket" /\ ~fwUpdateCtxt.bUpdateInProgress)
       => /\ response'.status = "e_EC_UPDATE_NOT_IN_PROGRESS"
          /\ mem' = mem
          /\ fwUpdateCtxt'.bytesReceived = fwUpdateCtxt.bytesReceived
          /\ fwUpdateCtxt'.fwImagePtr = fwUpdateCtxt.fwImagePtr
          /\ executeUpdate' = executeUpdate]_vars

C2_Witness ==
  /\ step = "sendDataPacket" /\ response.status = "e_EC_UPDATE_NOT_IN_PROGRESS"
  /\ sess.completions = 1 /\ sess.sum > sess.L /\ mem[0] # 0 /\ mem[1] = 0

\* C3: a startFirmwareUpdate answers e_EC_UPDATE_ALREADY_IN_PROGRESS when a
\* session was in progress and e_EC_SUCCESS otherwise; either way the new
\* session is the active one, with bytesReceived 0, the cursor at the base and
\* the new length and command.  executeUpdate is raised only once the packets
\* of the newest session reach its length, and an execution hands the shell
\* no command but the newest one.
C3_StartSupersedes ==
  [][/\ (step' = "startFirmwareUpdate")
          => /\ response'.status = IF fwUpdateCtxt.bUpdateInProgress
                                   THEN "e_EC_UPDATE_ALREADY_IN_PROGRESS"
                                   ELSE "e_EC_SUCCESS"
             /\ fwUpdateCtxt' = [bUpdateInProgress |-> TRUE,
                                 length |-> sess'.L, cmd |-> sess'.c,
                                 bytesReceived |-> 0,
                                 fwImageBase |-> FWUPDATE_BUFFER,
                                 fwImagePtr |-> FWUPDATE_BUFFER]
             /\ executeUpdate' = executeUpdate
     /\ executeUpdate' => (sess'.pkts >= 1 /\ sess'.sum >= sess'.L)
     /\ (step' = "execute") => (\A k \in DOMAIN shell' : shell'[k] = sess'.c)]_vars

C3_Witness ==
  /\ step = "startFirmwareUpdate"
  /\ response.status = "e_EC_UPDATE_ALREADY_IN_PROGRESS"
  /\ mem[0] # 0 /\ fwUpdateCtxt.bytesReceived = 0 /\ Offset = 0

\* C4: in every reachable state bytesReceived <= length.
C4_ReceivedWithinLength ==
  fwUpdateCtxt.bytesReceived <= fwUpdateCtxt.length

C6_ZeroLengthRejected ==
  /\ (step = "startFirmwareUpdate" /\ sess.L = 0)
       => response.status = "e_EC_INVALID_LENGTH"
  /\ executeUpdate => sess.L # 0

\* C7: when executeFirmwareUpdate runs on an image whose type is not
\* recognized, no CRC check is made, the state is not UPDATE_CORRUPT_IMAGE
\* and the command of the session is handed to the shell.
C7_UnknownTypePasses ==
  (exec.ran /\ ~exec.typeOk)
    => /\ exec.crcChecks = 0
       /\ state # "UPDATE_CORRUPT_IMAGE"
       /\ shell = <<sess.c>>

\* C8: when executeFirmwareUpdate runs on a recognized image whose data CRC
\* is bad, the state is UPDATE_CORRUPT_IMAGE, crcreturn is "1" and the shell
\* is not invoked.
C8_BadCrcIsCorrupt ==
  (exec.ran /\ exec.typeOk /\ ~exec.crcOk)
    => /\ state = "UPDATE_CORRUPT_IMAGE"
       /\ env = "1"
       /\ shell = <<>>

C8_Witness ==
  /\ exec.ran /\ exec.typeOk /\ ~exec.crcOk /\ exec.rc = 0
  /\ state = "UPDATE_CORRUPT_IMAGE" /\ sess.L = 2

\* C9: a run of executeFirmwareUpdate writes the state exactly once and hands
\* the shell at most one command; an image that passed the CRC check has its
\* command handed to the shell, and whenever the shell ran, the command is
\* that of the most recent startFirmwareUpdate and the state is
\* UPDATE_NOT_EXECUTED for a non-zero result and UPDATE_SUCCESS for zero.
C9_OneTerminalState ==
  exec.ran
    => /\ Len(exec.stateWrites) = 1
       /\ state = exec.stateWrites[1]
       /\ Len(shell) <= 1
       /\ (exec.typeOk /\ exec.crcOk) => Len(shell) = 1
       /\ Len(shell) = 1
            => /\ shell[1] = sess.c
               /\ state = IF exec.rc # 0 THEN "UPDATE_NOT_EXECUTED"
                                        ELSE "UPDATE_SUCCESS"

C9_Witness ==
  /\ exec.ran /\ exec.typeOk /\ exec.crcOk /\ exec.rc # 0
  /\ state = "UPDATE_NOT_EXECUTED" /\ shell = <<"run other">>

\* C10: between two arms of the latch at most one get_nextQueuedEvent returns
\* an event, however many completions preceded it; a poll returns
\* FIRMWARE_UPDATE_EVENT exactly when eventValid was set, and leaves it clear.
C10_LatchSingleSlot ==
  [][/\ delivered' <= 1
     /\ (step' = "get_nextQueuedEvent")
          => /\ ~eventValid'
             /\ response'.payload[1].eventCode =
                  IF eventValid THEN FIRMWARE_UPDATE_EVENT ELSE NULL_EVENT]_vars

C10_Witness ==
  /\ step = "get_nextQueuedEvent" /\ delivered = 1 /\ sess.runs = 1
  /\ response.payload[1].eventCode = NULL_EVENT

\* C11: when a transfer has completed (executeUpdate is raised after the
\* response), executeFirmwareUpdate runs and executeUpdate is cleared whether
\* or not the event queue is enabled; with the queue disabled eventValid
\* keeps its value and TrigAsyncLabXMailbox is not called, with the queue
\* enabled eventValid becomes TRUE and TrigAsyncLabXMailbox is called once.
C11_ArmOnlyWhenEnabled ==
  [][(pc = "post" /\ executeUpdate)
       => /\ step' = "execute" /\ exec'.ran /\ ~executeUpdate'
          /\ IF queueEnabled
             THEN eventValid' /\ asyncTrig' = 1
             ELSE eventValid' = eventValid /\ asyncTrig' = 0]_vars

C11_Witness ==
  /\ step = "execute" /\ exec.ran /\ ~queueEnabled /\ ~eventValid
  /\ asyncTrig = 0 /\ state \in ExecutionStates /\ sess.completions = 1

\* C12: eventValid changes in two ways only: it becomes TRUE in the step
\* that runs executeFirmwareUpdate, and it becomes FALSE in the
\* get_nextQueuedEvent call that returns FIRMWARE_UPDATE_EVENT, which always
\* clears it.  set_eventQueueEnabled leaves eventValid as it was, and a
\* get_nextQueuedEvent handled while eventValid is set returns the event
\* whatever queueEnabled is.
C12_PendingChangesTwoWays ==
  [][/\ (eventValid' /= eventValid)
          => \/ eventValid' /\ step' = "execute" /\ exec'.ran
             \/ /\ ~eventValid' /\ step' = "get_nextQueuedEvent"
                /\ response'.payload[1].eventCode = FIRMWARE_UPDATE_EVENT
     /\ (step' = "set_eventQueueEnabled") => (eventValid' = eventValid)
     /\ (step' = "get_nextQueuedEvent")
          => /\ eventValid
                  => response'.payload[1].eventCode = FIRMWARE_UPDATE_EVENT
             /\ (response'.payload[1].eventCode = FIRMWARE_UPDATE_EVENT)
                  => ~eventValid']_vars

\* an event armed while the queue was enabled is delivered after the queue
\* was disabled
C12_Witness ==
  /\ step = "get_nextQueuedEvent" /\ ~queueEnabled /\ ~eventValid
  /\ response.payload[1].eventCode = FIRMWARE_UPDATE_EVENT
  /\ delivered = 1

Sent(h) == [k \in 1..Len(h) |-> h[k].req]
Event(r) == r.resp.payload[1]

\* C13 as stated: from the initial state of update mode the host sends
\* startFirmwareUpdate("run commit", 4), one four-byte data packet, and two
\* get_nextQueuedEvent polls; the checksum validation of the run fails.  Then
\* the session has completed, *state is UPDATE_CORRUPT_IMAGE, the first poll
\* returned (FIRMWARE_UPDATE_EVENT, UPDATE_CORRUPT_IMAGE) and the second
\* returned NULL_EVENT.
C13_ScenarioDelivers ==
  (Sent(hist) = Scenario /\ env = "1")
    => /\ ~fwUpdateCtxt.bUpdateInProgress
       /\ state = "UPDATE_CORRUPT_IMAGE"
       /\ Event(hist[3]) = [eventCode |-> FIRMWARE_UPDATE_EVENT,
                            data |-> <<"UPDATE_CORRUPT_IMAGE">>]
       /\ Event(hist[4]).eventCode = NULL_EVENT

\* C13 amended: the scenario delivers the event when the host first enables
\* the event queue (set_eventQueueEnabled(TRUE), then the four requests):
\* the first poll returns (FIRMWARE_UPDATE_EVENT, UPDATE_CORRUPT_IMAGE) and
\* the second NULL_EVENT.  Sent as stated, with the queue still disabled,
\* the session completes and *state is UPDATE_CORRUPT_IMAGE, but both polls
\* return NULL_EVENT.
C13_ScenarioDeliversWhenEnabled ==
  /\ (Sent(hist) = ScenarioEnabled /\ env = "1")
       => /\ ~fwUpdateCtxt.bUpdateInProgress
          /\ state = "UPDATE_CORRUPT_IMAGE"
          /\ Event(hist[4]) = [eventCode |-> FIRMWARE_UPDATE_EVENT,
                               data |-> <<"UPDATE_CORRUPT_IMAGE">>]
          /\ Event(hist[5]).eventCode = NULL_EVENT
  /\ (Sent(hist) = Scenario /\ env = "1")
       => /\ ~fwUpdateCtxt.bUpdateInProgress
          /\ state = "UPDATE_CORRUPT_IMAGE"
          /\ Event(hist[3]).eventCode = NULL_EVENT
          /\ Event(hist[4]).eventCode = NULL_EVENT

C13_Witness ==
  /\ Sent(hist) = ScenarioEnabled /\ env = "1" /\ pc = "post"
  /\ Event(hist[4]).eventCode = FIRMWARE_UPDATE_EVENT
  /\ mem = [a \in 0..3 |-> ScenarioData[a + 1]]

\* C14 as stated: every run of executeFirmwareUpdate is surfaced through the
\* event queue and none is discarded.  A poll returns an event only while
\* eventValid is set and the event carries the outcome of the latest run, so
\* the claim needs every run to leave eventValid set, and to find it clear
\* (no earlier outcome still waiting to be replaced).
C14_EveryOutcomeSurfaced ==
  [][(step' = "execute") => (eventValid' /\ ~eventValid)]_vars

\* C14 amended: a run of executeFirmwareUpdate stores its outcome in *state,
\* which nothing else writes, and leaves an event pending only if the queue
\* is enabled or an event was pending already.  A poll handled while an
\* event is pending returns FIRMWARE_UPDATE_EVENT with the current *state,
\* the outcome of the latest run; any other poll returns NULL_EVENT.  The
\* outcome of a run made with the queue disabled and no event pending, and
\* an outcome replaced by a later run before it was polled, are not
\* delivered.
C14_LatestOutcomeWhenArmed ==
  [][/\ (step' = "execute")
          => /\ state' = exec'.stateWrites[Len(exec'.stateWrites)]
             /\ state' \in ExecutionStates
             /\ eventValid' = (queueEnabled \/ eventValid)
     /\ (step' /= "execute") => (state' = state)
     /\ (step' = "get_nextQueuedEvent")
          => response'.payload[1] =
               IF eventValid
               THEN [eventCode |-> FIRMWARE_UPDATE_EVENT, data |-> <<state>>]
               ELSE [eventCode |-> NULL_EVENT, data |-> <<>>]]_vars

\* a poll returns the pending event with the outcome of the latest run
C14_Witness ==
  /\ step = "get_nextQueuedEvent" /\ delivered = 1
  /\ response.payload[1] = [eventCode |-> FIRMWARE_UPDATE_EVENT,
                            data |-> <<"UPDATE_NOT_EXECUTED">>]
  /\ state = "UPDATE_NOT_EXECUTED"

\* C15: a request whose class code the switch does not recognize is answered
\* with status e_EC_INVALID_SERVICE_CODE and a frame that ends at the payload
\* offset (no payload), written to the mailbox once; the session context,
\* the staging memory, *state and the five flags keep their values.
C15_UnroutableRejected ==
  [][(step' = "malformed")
       => /\ response' = [status |-> "e_EC_INVALID_SERVICE_CODE",
                          payload |-> <<>>]
          /\ log' = <<"dispatch", "WriteLabXMailbox">>
          /\ fwUpdateCtxt' = fwUpdateCtxt /\ mem' = mem /\ state' = state
          /\ flags' = flags /\ shell' = <<>>]_vars

C15_Witness ==
  /\ step = "malformed" /\ pc = "post"
  /\ response.status = "e_EC_INVALID_SERVICE_CODE"
  /\ fwUpdateCtxt.bUpdateInProgress /\ eventValid

Writes(l) == Cardinality({k \in DOMAIN l : l[k] = "WriteLabXMailbox"})

\* C16: every request the dispatcher loop reads, routable or not, is
\* answered by exactly one WriteLabXMailbox of a response with a status, and
\* nothing is written between that response and the next read; the loop is
\* left only at the mailbox read, when ReadLabXMailbox returns 0, never as an
\* effect of a request or of an execution.
C16_OneResponsePerRequest ==
  [][/\ (pc = "read" /\ step' /= "halt")
          => /\ pc' = "post" /\ Writes(log') = 1
             /\ response'.status /= "none"
     /\ (pc = "post") => (pc' = "read" /\ Writes(log') = 0)
     /\ (pc' = "halt") => (pc = "read" /\ step' = "halt")]_vars

C16_Witness ==
  /\ pc = "post" /\ step = "sendDataPacket" /\ executeUpdate
  /\ Writes(log) = 1 /\ response.status = "e_EC_SUCCESS"

\* C17 as stated: the dispatcher loop is left and the infinite wait entered
\* only after an execution that ended in UPDATE_SUCCESS, which ends the
\* loop; after any other execution the loop goes on reading.
C17_ExitOnlyAfterSuccess ==
  [][/\ (pc' = "halt") => (state = "UPDATE_SUCCESS")
     /\ (step' = "execute")
          => (pc' = IF state' = "UPDATE_SUCCESS" THEN "halt" ELSE "read")]_vars

C19_RespondExecuteArmRead ==
  [][/\ (pc = "read" /\ executeUpdate')
          => /\ log' = <<"dispatch", "WriteLabXMailbox">>
             /\ ~exec'.ran /\ pc' = "post" /\ state' = state
     /\ (pc = "post" /\ executeUpdate)
          => /\ step' = "execute" /\ exec'.ran /\ state' \in ExecutionStates
             /\ ~executeUpdate' /\ pc' = "read"
             /\ log' = <<"executeFirmwareUpdate", "executeUpdate = FALSE">>
                         \o IF queueEnabled
                            THEN <<"eventValid = TRUE", "TrigAsyncLabXMailbox">>
                            ELSE <<>>
     /\ executeUpdate => (pc = "post")
     /\ executeUpdate' => (pc' = "post")]_vars

C19_Witness ==
  /\ step = "execute" /\ pc = "read" /\ queueEnabled /\ eventValid
  /\ Len(log) = 4 /\ asyncTrig = 1 /\ ~executeUpdate

\* C20: the boot polling loop makes an attempt only while i < 4 and every
\* attempt that does not end the loop adds one to i, so there are at most
\* four.  An attempt that finds no request sleeps once (udelay) and writes
\* nothing; an attempt that receives a request dispatches it and writes the
\* response without sleeping; a response with e_EC_SUCCESS ends the loop at
\* once, any other status uses up the attempt and the loop goes on while
\* attempts remain.
C20_BootWindow ==
  [][(pc = "poll")
       => /\ i < BootPolls
          /\ IF step' = "udelay"
             THEN /\ log' = <<"udelay">>
                  /\ i' = i + 1
                  /\ pc' = IF i + 1 < BootPolls THEN "poll" ELSE "decide"
             ELSE /\ log' = <<"dispatch", "WriteLabXMailbox">>
                  /\ IF response'.status = "e_EC_SUCCESS"
                     THEN pc' = "decide"
                     ELSE /\ i' = i + 1
                          /\ pc' = IF i + 1 < BootPolls THEN "poll"
                                   ELSE "decide"]_vars

\* the fourth attempt received a stray data packet: rejected, window over
C20_Witness ==
  /\ pc = "decide" /\ i = BootPolls /\ step = "sendDataPacket"
  /\ response.status = "e_EC_UPDATE_NOT_IN_PROGRESS"
  /\ log = <<"dispatch", "WriteLabXMailbox">>

\* what the dispatcher loop answers to request req in the current state
LoopResponse(req) ==
  IF req.cc \notin LoopClasses
  THEN [status |-> "e_EC_INVALID_SERVICE_CODE", payload |-> <<>>]
  ELSE CASE req.op = "sendCommand"
              -> [status |-> sendCommand(req.rc), payload |-> <<>>]
         [] req.op = "startFirmwareUpdate"
              -> [status |-> startFirmwareUpdate(req.cmd, req.length).ret,
                  payload |-> <<>>]
         [] req.op = "sendDataPacket"
              -> [status |-> sendDataPacket(req.data).ret, payload |-> <<>>]
         [] req.op = "get_ExecutingImageType"
              -> [status |-> "e_EC_SUCCESS", payload |-> <<"e_CODE_IMAGE_BOOT">>]
         [] req.op = "get_eventQueueEnabled"
              -> [status |-> "e_EC_SUCCESS", payload |-> <<queueEnabled>>]
         [] req.op = "get_nextQueuedEvent"
              -> [status |-> get_nextQueuedEvent.ret,
                  payload |-> <<get_nextQueuedEvent.event>>]
         [] OTHER -> [status |-> "e_EC_SUCCESS", payload |-> <<>>]

\* C21 as stated: the response written for a request received in the boot
\* polling window, status and payload (hence length), is the one the
\* dispatcher loop writes for the same request in the same state, whatever
\* the class code of the request.
C21_WindowAnswersAsLoop ==
  [][(pc = "poll" /\ step' /= "udelay") => (response' = LoopResponse(request'))]_vars

\* LoopResponse is what the loop writes: holds of every request it reads
LoopAnswersLoopResponse ==
  [][(pc = "read" /\ step' /= "halt") => (response' = LoopResponse(request'))]_vars

PortWrites(l) == SelectSeq(l, LAMBDA e : e.op = "putfslx")
PortReads(l) == SelectSeq(l, LAMBDA e : e.op = "getfslx")
\* the eight words of the ICAP read command, none of them a control word
IcapWords ==
  << "0x0FFFF", "0x0FFFF", "0x0AA99", "0x05566", "0x02AE1", "0x02000",
     "0x02000", "FINISH_FSL_BIT" >>
IcapWrites == [k \in 1..Len(IcapWords) |->
                 [op |-> "putfslx", word |-> IcapWords[k], control |-> FALSE]]

\* C22 as stated: once the probe has run, the writes made on the port are
\* exactly two pad words, the two synchronization words, the read command,
\* two no-op words and the finish word, in this order and nothing else; a
\* delay and exactly one read end the sequence; the probe is complete when
\* the polling window starts.
C22_ProbeWritesOnly ==
  /\ (pc = "probe") => (fslLog = <<>>)
  /\ (pc /= "probe")
       => /\ PortWrites(fslLog) = IcapWrites
          /\ Len(PortReads(fslLog)) = 1
          /\ SubSeq(fslLog, Len(fslLog) - 1, Len(fslLog))
               = <<[op |-> "udelay", us |-> 1000], [op |-> "getfslx"]>>

\* C22 amended: the probe first writes the control word 0x0FFFF and waits
\* 1000 us; then come the eight data writes (two pad words, the two
\* synchronization words, the read command, two no-op words, the finish
\* word), the 1000 us settle delay and exactly one read.  Nothing else is
\* written, and the whole sequence is complete when the polling window
\* starts.
C22_ControlWordThenProbe ==
  /\ (pc = "probe") => (fslLog = <<>>)
  /\ (pc /= "probe")
       => fslLog = << [op |-> "putfslx", word |-> "0x0FFFF", control |-> TRUE],
                      [op |-> "udelay", us |-> 1000] >>
                   \o IcapWrites
                   \o << [op |-> "udelay", us |-> 1000], [op |-> "getfslx"] >>

C22_Witness ==
  /\ pc = "poll" /\ i = 0 /\ step = "probe" /\ readValue = GENERAL5_MAGIC
  /\ Len(PortWrites(fslLog)) = 9 /\ Len(PortReads(fslLog)) = 1

\* C23 as stated: the payload a poll would return for a pending event is the
\* execution state of the completion that armed the latch, so a run of
\* executeFirmwareUpdate made while the queue is disabled, which does not
\* arm the latch, leaves the payload of a pending event (the cell *state the
\* poll reads) as it was.
C23_DisabledRunKeepsPayload ==
  [][(step' = "execute" /\ ~queueEnabled /\ eventValid)
       => /\ eventValid'
          /\ get_nextQueuedEvent.event.data = <<state>>
          /\ state' = state]_vars

\* C24: bUpdateInProgress and executeUpdate are never both set, and
\* executeUpdate is FALSE whenever the dispatcher loop is at its mailbox
\* read and during the whole of CheckFirmwareUpdate before the loop (probe,
\* polling window, decision, return): it is set only between the response to
\* a completing packet and the executor.
C24_NotInProgressAndPending ==
  /\ ~(fwUpdateCtxt.bUpdateInProgress /\ executeUpdate)
  /\ (pc \in {"probe", "poll", "decide", "returned", "read", "halt"})
       => ~executeUpdate

C24_Witness ==
  /\ pc = "post" /\ executeUpdate /\ ~fwUpdateCtxt.bUpdateInProgress
  /\ step = "sendDataPacket" /\ fwUpdateCtxt.bytesReceived >= fwUpdateCtxt.length

\* C25: while the polling window is open no request has been answered with
\* e_EC_SUCCESS yet (response is the last frame written in the window) and
\* neither host flag is set, so the response that ends the window is the
\* only successful one; at the decision at most one of firmwareUpdate and
\* bootDelay is set, and a flag is set only if the window ended on success.
C25_OneSuccessOneFlag ==
  /\ (pc = "poll")
       => /\ response.status /= "e_EC_SUCCESS"
          /\ ~firmwareUpdate /\ ~bootDelay
  /\ (pc = "decide")
       => /\ ~(firmwareUpdate /\ bootDelay)
          /\ (firmwareUpdate \/ bootDelay) => response.status = "e_EC_SUCCESS"

\* three attempts used up, then requestBootDelay on the fourth
C25_Witness ==
  /\ pc = "decide" /\ i = BootPolls - 1 /\ bootDelay /\ ~firmwareUpdate
  /\ step = "requestBootDelay" /\ response.status = "e_EC_SUCCESS"

\* Bounds of one mtd_bridge_cmd: IRQ reads while polling, status reads, and
\* what is about to be returned.
C26_CmdBounded ==
  /\ mtd.pc \in {"poll", "fetch"} => mtd.irqPolls <= MTDBRIDGE_TIMEOUT_WAITS + 1
  /\ (mtd.pc = "fetch" /\ ~mtd.complete) =>
       /\ mtd.irqPolls = MTDBRIDGE_TIMEOUT_WAITS + 1
       /\ mtd.cmd.rc = MTDBRIDGE_SR_NORESP
  /\ mtd.pc \in {"wait", "ret"} =>
       /\ mtd.statusReads <= MTDBRIDGE_TIMEOUT_WAITS + 1
       /\ ~mtd.complete => (mtd.statusReads = 0 /\ mtd.cmd.rc = MTDBRIDGE_SR_NORESP)
       /\ mtd.complete => (mtd.statusReads >= 1 /\ mtd.cmd.rc = mtd.lastStatus)
  /\ mtd.pc = "ret" =>
       (HasOip(mtd.cmd.rc) <=>
          (mtd.cmd.timeout = -1 /\ mtd.statusReads = MTDBRIDGE_TIMEOUT_WAITS + 1))

\* C26: mtd_bridge_cmd always terminates, whatever the registers return.  It
\* reads the IRQ register at most MTDBRIDGE_TIMEOUT_WAITS + 1 times and, if
\* the completion bit never shows, returns MTDBRIDGE_SR_NORESP without a
\* read of the status register; otherwise it reads the status once and
\* re-reads it at most MTDBRIDGE_TIMEOUT_WAITS times while the
\* operation-in-progress bit is set, and returns the last status read, which
\* has that bit set exactly when the second loop timed out.
C26_CmdTerminates ==
  /\ []C26_CmdBounded
  /\ (mtd.pc = "cmd") ~> (mtd.pc = "ret")

\* a command whose completion bit showed, and whose status kept the
\* operation-in-progress bit through every re-read, returns on timeout
C26_Witness ==
  /\ mtd.pc = "ret"
  /\ mtd.complete
  /\ mtd.statusReads = MTDBRIDGE_TIMEOUT_WAITS + 1
  /\ HasOip(mtd.cmd.rc)

RECURSIVE SumLens(_)
SumLens(cmds) ==
  IF cmds = <<>> THEN 0 ELSE Head(cmds).len + SumLens(Tail(cmds))

\* C27: mtd_bridge_write and mtd_bridge_read issue commands of at most
\* MTDBRIDGE_BUFFER_SIZE bytes at contiguous increasing offsets starting at
\* offset; a command with a non-zero status is the last one and its status
\* is what the call returns; when every command returned 0 the call returns
\* 0 and the command lengths sum to len; mtd_bridge_read copies out exactly
\* the chunks whose command returned 0, and mtd_bridge_write stages every
\* chunk before its command.
C27_TransferChunks ==
  mtd.op \in {"mtd_bridge_write", "mtd_bridge_read"} =>
    LET L == mtd.cmdLog
        n == Len(L)
        ok == {k \in 1..n : L[k].rc = 0}
    IN /\ \A k \in 1..n :
            /\ L[k].len >= 1 /\ L[k].len <= MTDBRIDGE_BUFFER_SIZE
            /\ L[k].opcode = Opcode(mtd.op)
            /\ L[k].offset = IF k = 1 THEN mtd.args.offset
                             ELSE L[k - 1].offset + L[k - 1].len
            /\ L[k].rc /= 0 => k = n
       /\ mtd.op = "mtd_bridge_read" =>
            /\ Len(mtd.copyLog) = Cardinality(ok)
            /\ \A j \in 1..Len(mtd.copyLog) :
                 /\ j \in ok
                 /\ mtd.copyLog[j] = [offset |-> L[j].offset,
                                      words |-> Words(L[j].len)]
       /\ (mtd.op = "mtd_bridge_write" /\ mtd.pc = "done") =>
            /\ Len(mtd.copyLog) = n
            /\ \A j \in 1..n :
                 mtd.copyLog[j] = [offset |-> L[j].offset,
                                   words |-> Words(L[j].len)]
       /\ mtd.pc = "done" =>
            /\ ok = 1..n => (mtd.ret = 0 /\ SumLens(L) = mtd.args.len)
            /\ ok /= 1..n => mtd.ret = L[n].rc

\* a read of two whole buffers and one byte whose third command fails: three
\* commands, two chunks copied out, the failing status returned
C27_Witness ==
  /\ mtd.pc = "done"
  /\ mtd.op = "mtd_bridge_read"
  /\ Len(mtd.cmdLog) = 3
  /\ mtd.cmdLog[3].len = 1
  /\ mtd.cmdLog[3].rc /= 0
  /\ Len(mtd.copyLog) = 2
  /\ mtd.ret = mtd.cmdLog[3].rc

=============================================================================
